---------------------------- MODULE Spec2Model ----------------------------
(***************************************************************************)
(* Model of src/daemon/daemon-posix.cc: dtr_daemon(), the self-pipe signal *)
(* relay (send_signal_to_pipe) and the dispatch thread                     *)
(* (signal_handler_thread_main / handle_signal).                           *)
(*                                                                         *)
(* Two threads are modelled: "main", the thread that calls dtr_daemon(),   *)
(* and "dispatch", the thread made by pthread_create().  A signal whose    *)
(* disposition is send_signal_to_pipe may be delivered to either thread;   *)
(* the handler then runs on top of that thread, which makes no step of its *)
(* own until the handler has returned.                                     *)
(***************************************************************************)
EXTENDS Integers, Sequences, FiniteSets

(* ------------------------------ bounds -------------------------------- *)

\* Number of signal deliveries (handler entries) in one behaviour.
MaxSignals == 2

\* Number of identifiers in the pipe when the dispatch loop is taken alone.
MaxQueued == 3

(* --------------------------- program constants ------------------------ *)

SIGHUP == 1
SIGINT == 2
SIGTERM == 15

\* The value destroy_signal_handler_thread() writes to stop the thread.
Sentinel == 0

\* The value dtr_daemon() stores in *exit_code before anything else.
InitialExitCode == 1

\* The value the parent side of fork() stores in *exit_code.
ParentExitCode == 0

\* An identifier that no case label of handle_signal() names (SIGQUIT).
Unexpected == 3

(* ----------------------------- input sets ----------------------------- *)

Signals == {SIGHUP, SIGINT, SIGTERM}

\* The values of sig the dispatch loop is examined with.
Identifiers == Signals \cup {Sentinel, Unexpected}

\* Order of the three setup_signal_handler() calls in dtr_daemon().
SetupOrder == <<SIGINT, SIGTERM, SIGHUP>>

Threads == {"main", "dispatch"}

\* Values of the void* context and of the dtr_callbacks pointer given to
\* dtr_daemon(); both statics hold "null" before the call.
Args == {"argA"}
Tables == {"cbA"}

\* What a second caller of dtr_daemon() passes.
OtherArgs == {"argB"}
OtherTables == {"cbB"}

\* Values on_start() may return.
ExitCodes == {0, 2}

\* errno: 0, or some error code.
ErrnoValues == {0, 1}

(* ------------------------------- state -------------------------------- *)

VARIABLES
    callbacks,      \* static dtr_callbacks const* callbacks
    callback_arg,   \* static void* callback_arg
    fdRead,         \* signal_pipe[0]: "unset", "open" or "closed"
    fdWrite,        \* signal_pipe[1]: "unset", "open" or "closed"
    pipebuf,        \* identifiers written to the pipe and not yet read
    handlers,       \* handlers[s]: the disposition of s is send_signal_to_pipe
    pc,             \* position of the main thread in dtr_daemon()
    loc,            \* dtr_daemon()'s parameters and locals
    out,            \* what dtr_daemon() hands back: return value, *exit_code, *error
    proc,           \* process: alive, pid, session, stdio
    thr,            \* dispatch thread: "none", "read", "callback", "exited", "joined"
    frames,         \* frames[t]: handler activations on thread t, innermost last
    errno,          \* errno[t], per thread
    active,         \* callback invocations that have begun and not returned
    invLog,         \* history: every Stop/Reconfigure invocation
    writeLog,       \* history: every identifier written to the pipe
    startLog,       \* history: every Start invocation
    nsig            \* history: number of signal deliveries so far

progVars == <<callbacks, callback_arg, fdRead, fdWrite, pipebuf, handlers,
              pc, loc, out, proc, thr, frames, errno>>
histVars == <<active, invLog, writeLog, startLog, nsig>>
progVars_but_pc == <<callbacks, callback_arg, fdRead, fdWrite, pipebuf,
                     handlers, loc, out, proc, thr, frames, errno>>
vars == <<progVars, histVars>>

(* ------------------------------ helpers ------------------------------- *)

\* The orchestrator state of the design's state machine, read off the
\* position of the main thread.  loc.ret is the value dtr_daemon() is about
\* to return: teardown after Start has it TRUE, rollback has it FALSE.
Phase ==
    CASE pc = "entry" -> "Init"
      [] pc \in {"daemonize", "setsid"} -> "Daemonizing"
      [] pc \in {"create_pipe", "create_thread", "setup", "call_start"} ->
            "InstallingSignals"
      [] pc = "in_start" -> "Running"
      [] pc \in {"send_sentinel", "join", "close_rd", "close_wr"} ->
            IF loc.ret THEN "TearingDown" ELSE "FailedSetup"
      [] pc = "returned" /\ out.success /\ out.forkParent -> "ParentDone"
      [] pc = "returned" /\ out.success -> "Terminated"
      [] OTHER -> "FailedSetup"

\* A thread runs its own code only when the process is alive and no signal
\* handler is active on top of it.
CanRun(t) == proc.alive /\ frames[t] = <<>>

ThreadAlive(t) ==
    IF t = "main" THEN TRUE ELSE thr \in {"read", "callback"}

\* handle_signal() with the two case bodies exchanged.
handle_signal_swapped(sig) ==
    CASE sig = SIGHUP -> "on_stop"
      [] sig \in {SIGINT, SIGTERM} -> "on_reconfigure"
      [] OTHER -> "none"

\* switch (sig) of handle_signal(): the callback it invokes, "none" for the
\* default branch, whose assert() has a string literal as its condition.
handle_signal(sig) ==
    CASE sig = SIGHUP -> "on_reconfigure"
      [] sig \in {SIGINT, SIGTERM} -> "on_stop"
      [] OTHER -> "none"

\* Line 58, assert("Unexpected signal"): the asserted expression is a string
\* literal, a non-null pointer, so the assertion holds whatever sig is (and
\* with NDEBUG the statement is empty).
default_assert_holds(sig) == TRUE

\* errno after send_signal_to_pipe() as it would be without line 71: what
\* write() left.
send_signal_errno_clobbered(old_errno, clobbered) == clobbered

\* errno after send_signal_to_pipe() returns: old_errno is the value saved at
\* entry, clobbered the value write() left.
send_signal_errno(old_errno, clobbered) == old_errno

\* write(signal_pipe[1], &sig, sizeof(sig)) succeeds only on an open pipe
\* whose read end is open too (otherwise EBADF, or EPIPE with SIGPIPE).
WriteSucceeds == fdWrite = "open" /\ fdRead = "open"

(* ------------------------------- Init --------------------------------- *)

Init ==
    /\ callbacks = "null"
    /\ callback_arg = "null"
    /\ fdRead = "unset"
    /\ fdWrite = "unset"
    /\ pipebuf = <<>>
    /\ handlers = [s \in Signals |-> FALSE]
    /\ pc = "entry"
    /\ loc = [cb |-> "null", cb_arg |-> "null", foreground |-> TRUE,
              setupIdx |-> 1, ret |-> FALSE]
    /\ out = [success |-> FALSE, exit_code |-> -1, error |-> "none",
              forkParent |-> FALSE]
    /\ proc = [alive |-> TRUE, pid |-> "orig", session |-> "orig",
               stdio |-> "tty"]
    /\ thr = "none"
    /\ frames = [t \in Threads |-> <<>>]
    /\ errno = [t \in Threads |-> 0]
    /\ active = {}
    /\ invLog = <<>>
    /\ writeLog = <<>>
    /\ startLog = <<>>
    /\ nsig = 0

(* ------------------------ dtr_daemon(): setup -------------------------- *)

\* return false / return true from dtr_daemon().
Return(success) ==
    /\ pc' = "returned"
    /\ out' = [out EXCEPT !.success = success]

\* A system call of the main thread failed: errno is set, *error is filled
\* by set_system_error() and dtr_daemon() returns false.
FailWith(message) ==
    /\ pc' = "returned"
    /\ out' = [out EXCEPT !.success = FALSE, !.error = message]
    /\ errno' = [errno EXCEPT !["main"] = 1]

\* dtr_daemon() as it would be with the test of line 152 inverted.
dtr_daemon_entry_inverted(cb, cb_arg, foreground) ==
    /\ pc = "entry"
    /\ CanRun("main")
    /\ callbacks' = cb
    /\ callback_arg' = cb_arg
    /\ loc' = [loc EXCEPT !.cb = cb, !.cb_arg = cb_arg, !.foreground = foreground]
    /\ out' = [out EXCEPT !.exit_code = InitialExitCode]
    /\ pc' = IF foreground THEN "daemonize" ELSE "create_pipe"
    /\ UNCHANGED <<fdRead, fdWrite, pipebuf, handlers, proc, thr,
                   frames, errno, histVars>>

\* Lines 145-152: record the callbacks, preset *exit_code, test foreground.
dtr_daemon_entry(cb, cb_arg, foreground) ==
    /\ pc = "entry"
    /\ CanRun("main")
    /\ callbacks' = cb
    /\ callback_arg' = cb_arg
    /\ loc' = [loc EXCEPT !.cb = cb, !.cb_arg = cb_arg, !.foreground = foreground]
    /\ out' = [out EXCEPT !.exit_code = InitialExitCode]
    /\ pc' = IF foreground THEN "create_pipe" ELSE "daemonize"
    /\ UNCHANGED <<fdRead, fdWrite, pipebuf, handlers, proc, thr,
                   frames, errno, histVars>>

\* Lines 156-160, the build with HAVE_DAEMON: daemon(true, false).  On
\* success the caller continues as the detached child, in a new session,
\* with stdio on /dev/null.
daemon_call(ok) ==
    /\ pc = "daemonize"
    /\ CanRun("main")
    /\ IF ok
       THEN /\ proc' = [proc EXCEPT !.pid = "child", !.session = "new",
                                    !.stdio = "null"]
            /\ pc' = "create_pipe"
            /\ UNCHANGED <<out, errno>>
       ELSE /\ FailWith("daemon() failed")
            /\ UNCHANGED proc
    /\ UNCHANGED <<callbacks, callback_arg, fdRead, fdWrite, pipebuf, handlers,
                   loc, thr, frames, histVars>>

\* switch (fork()) as it would be if the default case ended in break: the
\* parent goes on to setsid() like the child.
fork_call_parent_continues(r) ==
    /\ pc = "daemonize"
    /\ CanRun("main")
    /\ CASE r = "fail" ->
              /\ FailWith("fork() failed")
              /\ UNCHANGED proc
         [] r = "child" ->
              /\ proc' = [proc EXCEPT !.pid = "child"]
              /\ pc' = "setsid"
              /\ UNCHANGED <<out, errno>>
         [] OTHER ->
              /\ pc' = "setsid"
              /\ out' = [out EXCEPT !.exit_code = ParentExitCode,
                                    !.forkParent = TRUE]
              /\ UNCHANGED <<proc, errno>>
    /\ UNCHANGED <<callbacks, callback_arg, fdRead, fdWrite, pipebuf, handlers,
                   loc, thr, frames, histVars>>

\* Lines 167-179, the build without HAVE_DAEMON: switch (fork()).  The model
\* follows one of the two processes fork() leaves: r says which.
fork_call(r) ==
    /\ pc = "daemonize"
    /\ CanRun("main")
    /\ CASE r = "fail" ->
              /\ FailWith("fork() failed")
              /\ UNCHANGED proc
         [] r = "child" ->
              /\ proc' = [proc EXCEPT !.pid = "child"]
              /\ pc' = "setsid"
              /\ UNCHANGED <<out, errno>>
         [] OTHER ->
              /\ pc' = "returned"
              /\ out' = [out EXCEPT !.success = TRUE,
                                    !.exit_code = ParentExitCode,
                                    !.forkParent = TRUE]
              /\ UNCHANGED <<proc, errno>>
    /\ UNCHANGED <<callbacks, callback_arg, fdRead, fdWrite, pipebuf, handlers,
                   loc, thr, frames, histVars>>

\* Lines 181-185 as they would be without the return: the error is set and
\* dtr_daemon() goes on.
setsid_call_no_return(ok) ==
    /\ pc = "setsid"
    /\ CanRun("main")
    /\ IF ok
       THEN /\ proc' = [proc EXCEPT !.session = "new", !.stdio = "null"]
            /\ UNCHANGED <<out, errno>>
       ELSE /\ out' = [out EXCEPT !.error = "setsid() failed"]
            /\ errno' = [errno EXCEPT !["main"] = 1]
            /\ UNCHANGED proc
    /\ pc' = "create_pipe"
    /\ UNCHANGED <<callbacks, callback_arg, fdRead, fdWrite, pipebuf, handlers,
                   loc, thr, frames, histVars>>

\* Lines 181-201: setsid(), then stdin/stdout/stderr onto /dev/null.
setsid_call(ok) ==
    /\ pc = "setsid"
    /\ CanRun("main")
    /\ IF ok
       THEN /\ proc' = [proc EXCEPT !.session = "new", !.stdio = "null"]
            /\ pc' = "create_pipe"
            /\ UNCHANGED <<out, errno>>
       ELSE /\ FailWith("setsid() failed")
            /\ UNCHANGED proc
    /\ UNCHANGED <<callbacks, callback_arg, fdRead, fdWrite, pipebuf, handlers,
                   loc, thr, frames, histVars>>

\* Lines 86-95 (called from line 105): pipe(signal_pipe).
create_signal_pipe(ok) ==
    /\ pc = "create_pipe"
    /\ CanRun("main")
    /\ IF ok
       THEN /\ fdRead' = "open"
            /\ fdWrite' = "open"
            /\ pipebuf' = <<>>
            /\ pc' = "create_thread"
            /\ UNCHANGED <<out, errno>>
       ELSE /\ FailWith("pipe() failed")
            /\ UNCHANGED <<fdRead, fdWrite, pipebuf>>
    /\ UNCHANGED <<callbacks, callback_arg, handlers, loc, proc,
                   thr, frames, histVars>>

\* Lines 110-117: pthread_create().  On failure the pipe is destroyed
\* (lines 113-114) and dtr_daemon() returns false (line 210).
create_signal_handler_thread(ok) ==
    /\ pc = "create_thread"
    /\ CanRun("main")
    /\ IF ok
       THEN /\ thr' = "read"
            /\ pc' = "setup"
            /\ UNCHANGED <<out, errno, loc>>
       ELSE /\ out' = [out EXCEPT !.error = "pthread_create() failed"]
            /\ errno' = [errno EXCEPT !["main"] = 1]
            /\ loc' = [loc EXCEPT !.ret = FALSE]
            /\ pc' = "close_rd"
            /\ UNCHANGED thr
    /\ UNCHANGED <<callbacks, callback_arg, fdRead, fdWrite, pipebuf, handlers,
                   proc, frames, histVars>>

\* setup_signal_handler() followed by a dtr_daemon() that returns false on
\* a failure without calling destroy_signal_handler_thread().
setup_signal_handler_no_rollback(ok) ==
    /\ pc = "setup"
    /\ CanRun("main")
    /\ IF ok
       THEN /\ handlers' = [handlers EXCEPT ![SetupOrder[loc.setupIdx]] = TRUE]
            /\ IF loc.setupIdx = Len(SetupOrder)
               THEN pc' = "call_start" /\ UNCHANGED loc
               ELSE pc' = "setup" /\ loc' = [loc EXCEPT !.setupIdx = @ + 1]
            /\ UNCHANGED <<out, errno>>
       ELSE /\ FailWith("signal() failed")
            /\ UNCHANGED <<handlers, loc>>
    /\ UNCHANGED <<callbacks, callback_arg, fdRead, fdWrite, pipebuf,
                   proc, thr, frames, histVars>>

\* setup_signal_handler() followed by a dtr_daemon() that goes on to
\* on_start() whether or not signal() succeeded.
setup_signal_handler_unchecked(ok) ==
    /\ pc = "setup"
    /\ CanRun("main")
    /\ handlers' = [handlers EXCEPT ![SetupOrder[loc.setupIdx]] = ok]
    /\ IF loc.setupIdx = Len(SetupOrder)
       THEN pc' = "call_start" /\ UNCHANGED loc
       ELSE pc' = "setup" /\ loc' = [loc EXCEPT !.setupIdx = @ + 1]
    /\ UNCHANGED <<callbacks, callback_arg, fdRead, fdWrite, pipebuf,
                   out, errno, proc, thr, frames, histVars>>

\* Lines 128-139, called for SIGINT, SIGTERM, SIGHUP in turn (line 213):
\* signal(sig, &send_signal_to_pipe).  The first failure ends the || chain
\* and starts the rollback of line 215.
setup_signal_handler(ok) ==
    /\ pc = "setup"
    /\ CanRun("main")
    /\ SetupOrder[loc.setupIdx] # Sentinel
    /\ IF ok
       THEN /\ handlers' = [handlers EXCEPT ![SetupOrder[loc.setupIdx]] = TRUE]
            /\ IF loc.setupIdx = Len(SetupOrder)
               THEN pc' = "call_start" /\ UNCHANGED loc
               ELSE pc' = "setup" /\ loc' = [loc EXCEPT !.setupIdx = @ + 1]
            /\ UNCHANGED <<out, errno>>
       ELSE /\ out' = [out EXCEPT !.error = "signal() failed"]
            /\ errno' = [errno EXCEPT !["main"] = 1]
            /\ loc' = [loc EXCEPT !.ret = FALSE]
            /\ pc' = "send_sentinel"
            /\ UNCHANGED handlers
    /\ UNCHANGED <<callbacks, callback_arg, fdRead, fdWrite, pipebuf,
                   proc, thr, frames, histVars>>

(* ------------------------ dtr_daemon(): workload ----------------------- *)

\* Line 219, the call: cb->on_start(cb_arg, foreground) on the main thread.
on_start_call ==
    /\ pc = "call_start"
    /\ CanRun("main")
    /\ startLog' = Append(startLog,
                          [thread |-> "main", table |-> loc.cb, arg |-> loc.cb_arg,
                           foreground |-> loc.foreground, handlers |-> handlers,
                           thr |-> thr, fdRead |-> fdRead, fdWrite |-> fdWrite,
                           returned |-> FALSE, code |-> InitialExitCode])
    /\ pc' = "in_start"
    /\ UNCHANGED <<progVars_but_pc, active, invLog, writeLog, nsig>>

\* Line 219 as it would be without the assignment to *exit_code.
on_start_return_dropped(code) ==
    /\ pc = "in_start"
    /\ CanRun("main")
    /\ loc' = [loc EXCEPT !.ret = TRUE]
    /\ pc' = "send_sentinel"
    /\ startLog' = [startLog EXCEPT ![Len(startLog)].returned = TRUE,
                                    ![Len(startLog)].code = code]
    /\ UNCHANGED <<callbacks, callback_arg, fdRead, fdWrite, pipebuf, handlers,
                   out, proc, thr, frames, errno, active, invLog, writeLog, nsig>>

\* Line 219, the return: *exit_code = <value of on_start()>.
on_start_return(code) ==
    /\ pc = "in_start"
    /\ CanRun("main")
    /\ out' = [out EXCEPT !.exit_code = code]
    /\ loc' = [loc EXCEPT !.ret = TRUE]
    /\ pc' = "send_sentinel"
    /\ startLog' = [startLog EXCEPT ![Len(startLog)].returned = TRUE,
                                    ![Len(startLog)].code = code]
    /\ UNCHANGED <<callbacks, callback_arg, fdRead, fdWrite, pipebuf, handlers,
                   proc, thr, frames, errno, active, invLog, writeLog, nsig>>

(* --------------------------- the signal relay -------------------------- *)

\* send_signal_to_pipe() as it would be if the handler dispatched by itself:
\* it calls handle_signal(sig) on the interrupted thread, then writes.
send_signal_to_pipe_direct(t, sig, old_errno, sentIn) ==
    /\ IF WriteSucceeds
       THEN /\ pipebuf' = Append(pipebuf, sig)
            /\ writeLog' = Append(writeLog, [sig |-> sig, sentIn |-> sentIn])
            /\ errno' = [errno EXCEPT ![t] = old_errno]
            /\ UNCHANGED proc
       ELSE /\ proc' = [proc EXCEPT !.alive = FALSE]
            /\ UNCHANGED <<pipebuf, writeLog, errno>>
    /\ IF handle_signal(sig) = "none"
       THEN UNCHANGED <<active, invLog>>
       ELSE /\ active' = active \cup {[id |-> Len(invLog) + 1, thread |-> t,
                                       inHandler |-> frames[t] # <<>>]}
            /\ invLog' = Append(invLog,
                                [sig |-> sig, cb |-> handle_signal(sig),
                                 table |-> callbacks, arg |-> callback_arg,
                                 thread |-> t, inHandler |-> frames[t] # <<>>,
                                 phase |-> Phase, queued |-> pipebuf])

\* send_signal_to_pipe() as it would be over a channel that hands out the
\* newest identifier first.
send_signal_to_pipe_lifo(t, sig, old_errno, sentIn) ==
    /\ IF WriteSucceeds
       THEN /\ pipebuf' = <<sig>> \o pipebuf
            /\ writeLog' = Append(writeLog, [sig |-> sig, sentIn |-> sentIn])
            /\ errno' = [errno EXCEPT ![t] = old_errno]
            /\ UNCHANGED proc
       ELSE /\ proc' = [proc EXCEPT !.alive = FALSE]
            /\ UNCHANGED <<pipebuf, writeLog, errno>>
    /\ UNCHANGED <<active, invLog>>

\* send_signal_to_pipe() as it would be without lines 66-69: a failed write()
\* is ignored and the function returns.
send_signal_to_pipe_ignoring_failure(t, sig, old_errno, sentIn) ==
    /\ IF WriteSucceeds
       THEN /\ pipebuf' = Append(pipebuf, sig)
            /\ writeLog' = Append(writeLog, [sig |-> sig, sentIn |-> sentIn])
            /\ errno' = [errno EXCEPT ![t] = old_errno]
       ELSE UNCHANGED <<pipebuf, writeLog, errno>>
    /\ UNCHANGED <<proc, active, invLog>>

\* Lines 62-72, the body of send_signal_to_pipe(sig) run on thread t, which
\* had errno = old_errno at entry: one write() of sig to signal_pipe[1];
\* abort() when it fails, errno restored when it succeeds.  It invokes no
\* callback.  sentIn is the orchestrator state in which the signal was
\* delivered (the call was made); it is kept in the history only.
send_signal_to_pipe(t, sig, old_errno, sentIn) ==
    /\ IF WriteSucceeds
       THEN /\ pipebuf' = Append(pipebuf, sig)
            /\ writeLog' = Append(writeLog,
                                  [sig |-> sig, sentIn |-> sentIn])
            /\ \E clobbered \in ErrnoValues :
                  errno' = [errno EXCEPT ![t] = send_signal_errno(old_errno, clobbered)]
            /\ UNCHANGED proc
       ELSE /\ proc' = [proc EXCEPT !.alive = FALSE]
            /\ UNCHANGED <<pipebuf, writeLog, errno>>
    /\ UNCHANGED <<active, invLog>>

\* The kernel delivers signal s, whose disposition is send_signal_to_pipe
\* (line 132), to thread t: the handler is entered on top of whatever t was
\* doing and saves errno (line 64).  s stays blocked on t while its own
\* handler runs.
signal_delivery(t, s) ==
    /\ proc.alive
    /\ handlers[s]
    /\ ThreadAlive(t)
    /\ nsig < MaxSignals
    /\ \A i \in 1..Len(frames[t]) : frames[t][i].sig # s
    /\ frames' = [frames EXCEPT ![t] = Append(@, [sig |-> s, old_errno |-> errno[t],
                                                       sentIn |-> Phase])]
    /\ nsig' = nsig + 1
    /\ UNCHANGED <<callbacks, callback_arg, fdRead, fdWrite, pipebuf, handlers,
                   pc, loc, out, proc, thr, errno, active, invLog, writeLog,
                   startLog>>

\* The innermost handler activation on thread t runs lines 66-72 and returns
\* (or aborts the process, and does not return).
signal_handler_run(t) ==
    /\ proc.alive
    /\ frames[t] # <<>>
    /\ LET f == frames[t][Len(frames[t])]
       IN  /\ send_signal_to_pipe(t, f.sig, f.old_errno, f.sentIn)
           /\ frames' = IF proc'.alive
                        THEN [frames EXCEPT ![t] = SubSeq(@, 1, Len(@) - 1)]
                        ELSE frames
    /\ UNCHANGED <<callbacks, callback_arg, fdRead, fdWrite, handlers, pc, loc,
                   out, thr, startLog, nsig>>

(* -------------------------- the dispatch thread ------------------------ *)

\* sizeof(sig), what a complete read() returns.
SizeofSig == 4

\* The while condition as it would be without the test sig != 0.
loop_continues_no_sentinel(n, sig) == n = SizeofSig

\* Line 78, the condition of the while loop: n is what read() returned.
loop_continues(n, sig) == n = SizeofSig /\ sig # Sentinel

\* invoke_callback() as it would be if the callback were started and not
\* waited for: the loop goes back to read() at once.
invoke_callback_async(sig) ==
    LET cbname == handle_signal(sig)
    IN  /\ thr' = "read"
        /\ UNCHANGED proc
        /\ IF cbname = "none"
           THEN UNCHANGED <<active, invLog>>
           ELSE /\ active' = active \cup {[id |-> Len(invLog) + 1,
                                           thread |-> "dispatch",
                                           inHandler |-> frames["dispatch"] # <<>>]}
                /\ invLog' = Append(invLog,
                                    [sig |-> sig, cb |-> cbname, table |-> callbacks,
                                     arg |-> callback_arg, thread |-> "dispatch",
                                     inHandler |-> frames["dispatch"] # <<>>,
                                     phase |-> Phase, queued |-> Tail(pipebuf)])

\* Lines 44-60 as called from line 80: the callback of handle_signal(sig) is
\* invoked on the dispatch thread with the process-wide callback_arg; in the
\* default branch the assertion is evaluated and handle_signal() returns.
invoke_callback(sig) ==
    LET cbname == handle_signal(sig)
    IN  IF cbname = "none"
        THEN /\ IF default_assert_holds(sig)
                THEN thr' = "read" /\ UNCHANGED proc
                ELSE proc' = [proc EXCEPT !.alive = FALSE] /\ UNCHANGED thr
             /\ UNCHANGED <<active, invLog>>
        ELSE /\ thr' = "callback"
             /\ UNCHANGED proc
             /\ active' = active \cup {[id |-> Len(invLog) + 1, thread |-> "dispatch",
                                        inHandler |-> frames["dispatch"] # <<>>]}
             /\ invLog' = Append(invLog,
                                 [sig |-> sig, cb |-> cbname, table |-> callbacks,
                                  arg |-> callback_arg, thread |-> "dispatch",
                                  inHandler |-> frames["dispatch"] # <<>>,
                                  phase |-> Phase, queued |-> Tail(pipebuf)])

\* Lines 74-84, one turn of the loop of signal_handler_thread_main(): a
\* blocking read() of one identifier, then handle_signal() or the end of the
\* thread.  read() on a descriptor that is not open returns -1.
signal_handler_thread_main ==
    /\ thr = "read"
    /\ CanRun("dispatch")
    /\ IF fdRead # "open"
       THEN /\ ~loop_continues(-1, Sentinel)
            /\ thr' = "exited"
            /\ UNCHANGED <<pipebuf, active, invLog, proc>>
       ELSE /\ pipebuf # <<>>
            /\ pipebuf' = Tail(pipebuf)
            /\ IF loop_continues(SizeofSig, Head(pipebuf))
               THEN invoke_callback(Head(pipebuf))
               ELSE /\ thr' = "exited"
                    /\ UNCHANGED <<active, invLog, proc>>
    /\ UNCHANGED <<callbacks, callback_arg, fdRead, fdWrite, handlers, pc, loc,
                   out, frames, errno, writeLog, startLog, nsig>>

\* callbacks->on_stop() / callbacks->on_reconfigure() returns to
\* handle_signal(), which returns to the loop (lines 50, 55, 81).
callback_return ==
    /\ thr = "callback"
    /\ CanRun("dispatch")
    /\ active' = {a \in active : ~(a.thread = "dispatch" /\ ~a.inHandler)}
    /\ thr' = "read"
    /\ UNCHANGED <<callbacks, callback_arg, fdRead, fdWrite, pipebuf, handlers,
                   pc, loc, out, proc, frames, errno, invLog, writeLog,
                   startLog, nsig>>

(* ----------------------- dtr_daemon(): teardown ------------------------ *)

\* Line 122: send_signal_to_pipe(0), an ordinary call on the main thread.
destroy_send_sentinel ==
    /\ pc = "send_sentinel"
    /\ CanRun("main")
    /\ send_signal_to_pipe("main", Sentinel, errno["main"], Phase)
    /\ pc' = IF proc'.alive THEN "join" ELSE pc
    /\ UNCHANGED <<callbacks, callback_arg, fdRead, fdWrite, handlers,
                   loc, out, thr, frames, startLog, nsig>>

\* destroy_signal_handler_thread() as it would be if line 123 did not wait
\* for the thread to end.
destroy_join_no_wait ==
    /\ pc = "join"
    /\ CanRun("main")
    /\ thr' = IF thr = "exited" THEN "joined" ELSE thr
    /\ pc' = "close_rd"
    /\ UNCHANGED <<callbacks, callback_arg, fdRead, fdWrite, pipebuf, handlers,
                   loc, out, proc, frames, errno, histVars>>

\* Line 123: pthread_join() returns once the dispatch thread has ended.
destroy_join ==
    /\ pc = "join"
    /\ CanRun("main")
    /\ thr = "exited"
    /\ thr' = "joined"
    /\ pc' = "close_rd"
    /\ UNCHANGED <<callbacks, callback_arg, fdRead, fdWrite, pipebuf, handlers,
                   loc, out, proc, frames, errno, histVars>>

\* Line 99: close(signal_pipe[0]).
destroy_close_read ==
    /\ pc = "close_rd"
    /\ CanRun("main")
    /\ fdRead' = "closed"
    /\ pc' = "close_wr"
    /\ UNCHANGED <<callbacks, callback_arg, fdWrite, pipebuf, handlers,
                   loc, out, proc, thr, frames, errno, histVars>>

\* destroy_signal_pipe() as it would be without line 100.
destroy_close_write_leak ==
    /\ pc = "close_wr"
    /\ CanRun("main")
    /\ Return(loc.ret)
    /\ UNCHANGED <<callbacks, callback_arg, fdRead, fdWrite, pipebuf, handlers,
                   loc, proc, thr, frames, errno, histVars>>

\* Line 100: close(signal_pipe[1]); then the return of dtr_daemon()
\* (line 114 and 210, line 216, or line 223).
destroy_close_write ==
    /\ pc = "close_wr"
    /\ CanRun("main")
    /\ fdWrite' = "closed"
    /\ Return(loc.ret)
    /\ UNCHANGED <<callbacks, callback_arg, fdRead, pipebuf, handlers,
                   loc, proc, thr, frames, errno, histVars>>

(* ---------------------------- specification ---------------------------- *)

Next ==
    \/ \E cb \in Tables, cb_arg \in Args, foreground \in BOOLEAN :
          dtr_daemon_entry(cb, cb_arg, foreground)
    \/ \E ok \in BOOLEAN : daemon_call(ok)
    \/ \E r \in {"fail", "child", "parent"} : fork_call(r)
    \/ \E ok \in BOOLEAN : setsid_call(ok)
    \/ \E ok \in BOOLEAN : create_signal_pipe(ok)
    \/ \E ok \in BOOLEAN : create_signal_handler_thread(ok)
    \/ \E ok \in BOOLEAN : setup_signal_handler(ok)
    \/ on_start_call
    \/ \E code \in ExitCodes : on_start_return(code)
    \/ \E t \in Threads, s \in Signals : signal_delivery(t, s)
    \/ \E t \in Threads : signal_handler_run(t)
    \/ signal_handler_thread_main
    \/ callback_return
    \/ destroy_send_sentinel
    \/ destroy_join
    \/ destroy_close_read
    \/ destroy_close_write

Spec == Init /\ [][Next]_vars

(* ------------------------------ fairness ------------------------------ *)

\* Fair scheduling: a thread that can take its next step takes it.  The main
\* thread goes through destroy_signal_handler_thread(); the dispatch thread
\* reads what is in the pipe; a callback that was invoked returns; a handler
\* that was entered runs.  Nothing is assumed about signals arriving, about
\* system calls succeeding or about on_start() returning.
Fairness ==
    /\ WF_vars(destroy_send_sentinel)
    /\ WF_vars(destroy_join)
    /\ WF_vars(destroy_close_read)
    /\ WF_vars(destroy_close_write)
    /\ WF_vars(signal_handler_thread_main)
    /\ WF_vars(callback_return)
    /\ \A t \in Threads : WF_vars(signal_handler_run(t))

FairSpec == Spec /\ Fairness

(* ----------------------- a second dtr_daemon() call -------------------- *)

\* Lines 147-150 run by a second call of dtr_daemon(), made on some thread of
\* the process while the first call is between its entry and its return
\* (from the workload of on_start, say).  The function tests nothing before
\* it assigns the two statics.  The second call's *exit_code is its own
\* caller's; the call is followed no further than line 150.
dtr_daemon_second_entry(cb, cb_arg) ==
    /\ proc.alive
    /\ pc \notin {"entry", "returned"}
    /\ callbacks = loc.cb
    /\ callbacks' = cb
    /\ callback_arg' = cb_arg
    /\ UNCHANGED <<fdRead, fdWrite, pipebuf, handlers, pc, loc, out, proc, thr,
                   frames, errno, histVars>>

NextReentry ==
    \/ Next
    \/ \E cb \in OtherTables, cb_arg \in OtherArgs :
          dtr_daemon_second_entry(cb, cb_arg)

SpecReentry == Init /\ [][NextReentry]_vars

(* ----------------------- read() interrupted ---------------------------- *)

\* Lines 62-72 and 78, where signal() installs the handler without restart
\* of system calls (System V semantics; POSIX leaves the choice to the
\* implementation, so both outcomes belong to the program): the dispatch
\* thread is blocked in read() on the empty pipe when a signal is delivered
\* to it; the handler writes the identifier and returns, read() returns -1
\* with EINTR, and the while condition ends the loop.  Where system calls
\* are restarted the same delivery is signal_handler_run("dispatch").
read_interrupted ==
    /\ proc.alive
    /\ thr = "read"
    /\ fdRead = "open"
    /\ pipebuf = <<>>
    /\ Len(frames["dispatch"]) = 1
    /\ LET f == frames["dispatch"][1]
       IN  send_signal_to_pipe("dispatch", f.sig, f.old_errno, f.sentIn)
    /\ frames' = IF proc'.alive THEN [frames EXCEPT !["dispatch"] = <<>>]
                                ELSE frames
    /\ thr' = IF loop_continues(-1, Sentinel) THEN "read" ELSE "exited"
    /\ UNCHANGED <<callbacks, callback_arg, fdRead, fdWrite, handlers, pc, loc,
                   out, startLog, nsig>>

NextEintr ==
    \/ Next
    \/ read_interrupted

SpecEintr == Init /\ [][NextEintr]_vars

(* ---------------------- the dispatch loop, alone ----------------------- *)

\* The dispatch loop of lines 74-84 with the pipe as its input: the state is
\* that of Running (pipe open, thread at read(), handlers installed, Start
\* called and executing), the pipe holds any identifiers, and only the
\* dispatch thread moves.
InitDispatch ==
    /\ callbacks = "cbA"
    /\ callback_arg = "argA"
    /\ fdRead = "open"
    /\ fdWrite = "open"
    /\ pipebuf \in UNION {[1..n -> Identifiers] : n \in 0..MaxQueued}
    /\ handlers = [s \in Signals |-> TRUE]
    /\ pc = "in_start"
    /\ loc = [cb |-> "cbA", cb_arg |-> "argA", foreground |-> TRUE,
              setupIdx |-> Len(SetupOrder), ret |-> FALSE]
    /\ out = [success |-> FALSE, exit_code |-> InitialExitCode, error |-> "none",
              forkParent |-> FALSE]
    /\ proc = [alive |-> TRUE, pid |-> "orig", session |-> "orig",
               stdio |-> "tty"]
    /\ thr = "read"
    /\ frames = [t \in Threads |-> <<>>]
    /\ errno = [t \in Threads |-> 0]
    /\ active = {}
    /\ invLog = <<>>
    /\ writeLog = [i \in 1..Len(pipebuf) |->
                      [sig |-> pipebuf[i], sentIn |-> "Running"]]
    /\ startLog = <<[thread |-> "main", table |-> "cbA", arg |-> "argA",
                     foreground |-> TRUE, handlers |-> [s \in Signals |-> TRUE],
                     thr |-> "read", fdRead |-> "open", fdWrite |-> "open",
                     returned |-> FALSE, code |-> InitialExitCode]>>
    /\ nsig = 0

NextDispatch ==
    \/ signal_handler_thread_main
    \/ callback_return

SpecDispatch == InitDispatch /\ [][NextDispatch]_vars

(* ------------------------- history read-outs --------------------------- *)

\* What the dispatch thread has read so far: the pipe is first in, first
\* out, so it is what was written less what is still in the pipe.
Consumed == SubSeq(writeLog, 1, Len(writeLog) - Len(pipebuf))

\* The identifiers signal handlers wrote, in the order of the writes.
HandlerWrites == SelectSeq(writeLog, LAMBDA w : w.sig # Sentinel)

\* Handler activations for signal s that have not returned, on any thread.
PendingHandlers(s) ==
    {<<t, i>> \in Threads \X (1..MaxSignals + 1) :
        i <= Len(frames[t]) /\ frames[t][i].sig = s}

\* Deliveries of s so far: each is still in its handler or has written.
Deliveries(s) ==
    Cardinality(PendingHandlers(s)) +
    Len(SelectSeq(writeLog, LAMBDA w : w.sig = s))

\* Stop/Reconfigure invocations made for identifier s.
InvocationsFor(s) == SelectSeq(invLog, LAMBDA e : e.sig = s)

\* The callback the design assigns to a signal (HUP -> Reconfigure;
\* INT, TERM -> Stop).
CallbackFor(s) == IF s = SIGHUP THEN "on_reconfigure" ELSE "on_stop"

AllInstalled(h) == \A s \in Signals : h[s]

TeardownPcs == {"send_sentinel", "join", "close_rd", "close_wr"}

\* The messages set_system_error() is given when the detach step fails.
DetachErrors == {"daemon() failed", "fork() failed", "setsid() failed"}

\* Nothing of the signal machinery exists and Start was never called.
NothingSetUp ==
    /\ \A s \in Signals : ~handlers[s]
    /\ fdRead = "unset" /\ fdWrite = "unset"
    /\ pipebuf = <<>>
    /\ thr = "none"
    /\ startLog = <<>>
    /\ invLog = <<>>

(* ------------------------------- claims -------------------------------- *)

\* C1: for each signal S in {HUP, INT, TERM}, if S is delivered exactly once
\* and that delivery happens while the orchestrator is in Running, then
\* exactly one invocation of the corresponding callback is made for it, on
\* the dispatch thread.  Stated on the states in which nothing more can come
\* of the delivery: its handler has returned and the dispatch thread has
\* ended.
C1_OneDeliveryOneInvocation ==
    \A s \in Signals :
        ( /\ Deliveries(s) = 1
          /\ PendingHandlers(s) = {}
          /\ \A i \in 1..Len(writeLog) :
                writeLog[i].sig = s => writeLog[i].sentIn = "Running"
          /\ thr \in {"exited", "joined"} )
        => /\ Len(InvocationsFor(s)) = 1
           /\ InvocationsFor(s)[1].cb = CallbackFor(s)
           /\ InvocationsFor(s)[1].thread = "dispatch"

C3_CallbacksOnlyInRunning ==
    \A i \in 1..Len(invLog) : invLog[i].phase = "Running"

\* C4: when pipe(), pthread_create() or one of the three signal() calls has
\* failed, dtr_daemon() has returned false without calling Start, and at its
\* return both pipe ends are closed (or were never opened) and a dispatch
\* thread that was created has read the sentinel and has been joined.
C4_SetupFailureRolledBack ==
    ( /\ pc = "returned"
      /\ out.error \in {"pipe() failed", "pthread_create() failed",
                        "signal() failed"} )
    => /\ out.success = FALSE
       /\ startLog = <<>>
       /\ fdRead # "open"
       /\ fdWrite # "open"
       /\ thr \in {"none", "joined"}
       /\ thr = "joined" =>
             /\ \E i \in 1..Len(writeLog) : writeLog[i].sig = Sentinel
             /\ \A i \in 1..Len(pipebuf) : pipebuf[i] # Sentinel

\* C4 witness: the second signal() failed after the first handler was
\* installed, and dtr_daemon() has returned after the rollback.
C4_Witness ==
    /\ pc = "returned"
    /\ out.error = "signal() failed"
    /\ handlers[SIGINT] /\ ~handlers[SIGTERM]
    /\ thr = "joined"
    /\ fdRead = "closed" /\ fdWrite = "closed"

\* C5: Start is called at most once, on the main thread, with the context
\* and foreground flag given to dtr_daemon(), when the dispatch thread is
\* running and SIGINT, SIGTERM and SIGHUP all have their handler; it has been
\* called exactly once wherever setup has succeeded (and the process is not
\* the fork parent), and never in any other invocation.
C5_StartCalledOnceAfterSetup ==
    /\ Len(startLog) =
          IF \/ pc = "in_start"
             \/ pc \in TeardownPcs /\ loc.ret
             \/ pc = "returned" /\ out.success /\ ~out.forkParent
          THEN 1 ELSE 0
    /\ \A i \in 1..Len(startLog) :
          /\ startLog[i].thread = "main"
          /\ startLog[i].table = loc.cb
          /\ startLog[i].arg = loc.cb_arg
          /\ startLog[i].foreground = loc.foreground
          /\ startLog[i].thr \in {"read", "callback"}
          /\ AllInstalled(startLog[i].handlers)
          /\ startLog[i].fdRead = "open" /\ startLog[i].fdWrite = "open"
    /\ (pc = "returned" /\ (~out.success \/ out.forkParent)) => startLog = <<>>

\* C5 witness: Start has been called and has not returned.
C5_Witness ==
    /\ pc = "in_start"
    /\ Len(startLog) = 1
    /\ ~startLog[1].returned
    /\ AllInstalled(handlers)

\* C6: when dtr_daemon() has returned after calling Start, Start had
\* returned, both ends of the pipe are closed and the dispatch thread has
\* ended and has been joined.
C6_NothingLeftAfterStart ==
    (pc = "returned" /\ Len(startLog) = 1)
    => /\ startLog[1].returned
       /\ fdRead = "closed"
       /\ fdWrite = "closed"
       /\ thr = "joined"

\* C6 witness: dtr_daemon() has returned from a run in which Start was called
\* and a signal was dispatched.
C6_Witness ==
    /\ pc = "returned"
    /\ Len(startLog) = 1
    /\ Len(invLog) = 1
    /\ proc.alive

\* C7: when setup succeeded and Start returned c, dtr_daemon() returns true
\* with *exit_code = c, whichever callbacks ran.
C7_ExitCodeIsStarts ==
    (pc = "returned" /\ Len(startLog) = 1)
    => /\ out.success = TRUE
       /\ out.exit_code = startLog[1].code

\* C7 witness: Start returned 2 after Stop and Reconfigure had both run, and
\* dtr_daemon() has returned.
C7_Witness ==
    /\ pc = "returned"
    /\ Len(startLog) = 1
    /\ startLog[1].code = 2
    /\ out.exit_code = 2
    /\ \E i, j \in 1..Len(invLog) :
          invLog[i].cb = "on_stop" /\ invLog[j].cb = "on_reconfigure"

\* C8: at most one Stop/Reconfigure invocation is executing at any moment,
\* it is executing on the dispatch thread, and while it executes the
\* dispatch thread is inside it, not reading the next identifier.
C8_CallbacksNeverOverlap ==
    /\ Cardinality(active) <= 1
    /\ \A a \in active : a.thread = "dispatch" /\ a.id = Len(invLog)
    /\ active # {} <=> thr = "callback"

\* C8 witness: a callback executes on the dispatch thread while the main
\* thread executes Start and the next identifier waits in the pipe.
C8_Witness ==
    /\ Cardinality(active) = 1
    /\ thr = "callback"
    /\ pc = "in_start"
    /\ pipebuf # <<>>

\* C9: a run of the handler does one write of its signal's identifier and
\* invokes nothing: every delivery is either still in its handler or has
\* written exactly one identifier, and every Stop/Reconfigure invocation was
\* made by the dispatch thread, outside any handler, for an identifier that
\* had been written before.
C9_HandlerOnlyWrites ==
    /\ nsig = Len(HandlerWrites)
              + Cardinality(UNION {PendingHandlers(s) : s \in Signals})
    /\ Len(invLog) <= Len(HandlerWrites)
    /\ \A i \in 1..Len(invLog) :
          /\ invLog[i].thread = "dispatch"
          /\ ~invLog[i].inHandler
          /\ invLog[i].sig = HandlerWrites[i].sig
    /\ \A a \in active : a.thread = "dispatch" /\ ~a.inHandler

\* C9 witness: a signal delivered during Running has been written, and the
\* dispatch thread is executing the callback for it while the handler of a
\* second signal is active on the main thread, on top of Start.
C9_Witness ==
    /\ pc = "in_start"
    /\ Len(invLog) = 1
    /\ invLog[1].phase = "Running"
    /\ writeLog[1].sentIn = "Running"
    /\ thr = "callback"
    /\ frames["main"] # <<>>
    /\ frames["dispatch"] = <<>>

\* The invocations made so far follow the table HUP -> on_reconfigure,
\* INT/TERM -> on_stop, with the callbacks and context given to dtr_daemon().
InvocationsFollowTable ==
    \A i \in 1..Len(invLog) :
        /\ invLog[i].sig \in Signals
        /\ invLog[i].sig = SIGHUP => invLog[i].cb = "on_reconfigure"
        /\ invLog[i].sig \in {SIGINT, SIGTERM} => invLog[i].cb = "on_stop"
        /\ invLog[i].table = loc.cb
        /\ invLog[i].arg = loc.cb_arg

\* C10: the dispatch thread invokes Reconfigure, never Stop, for HUP and
\* Stop, never Reconfigure, for INT and TERM, each with the context given to
\* dtr_daemon(); and when the callback returns the thread is back at read().
C10_DispatchTable ==
    /\ []InvocationsFollowTable
    /\ [][(thr = "callback" /\ thr' # "callback") => thr' = "read"]_vars

\* C10 witness: HUP then INT have been dispatched, to Reconfigure and to
\* Stop, with the context "argA", and the thread is reading again.
C10_Witness ==
    /\ Len(invLog) = 2
    /\ invLog[1].sig = SIGHUP /\ invLog[1].cb = "on_reconfigure"
    /\ invLog[2].sig = SIGINT /\ invLog[2].cb = "on_stop"
    /\ invLog[2].arg = "argA" /\ loc.cb_arg = "argA"
    /\ active = {}
    /\ thr = "read"

\* C11: the sentinel 0 invokes no callback and ends the loop: the step in
\* which the dispatch thread reads 0 leaves the thread ended with no
\* invocation made; no invocation is ever made for 0; and 0 is no signal a
\* handler is registered for, so no handler activation carries it and only
\* destroy_signal_handler_thread() writes it.
C11_SentinelEndsLoop ==
    /\ [](/\ \A i \in 1..Len(invLog) : invLog[i].sig # Sentinel
          /\ \A t \in Threads : \A i \in 1..Len(frames[t]) :
                frames[t][i].sig # Sentinel
          /\ \A i \in 1..Len(SetupOrder) : SetupOrder[i] # Sentinel
          /\ \A i \in 1..Len(writeLog) :
                writeLog[i].sig = Sentinel =>
                    writeLog[i].sentIn \in {"TearingDown", "FailedSetup"})
    /\ [][(/\ thr = "read"
           /\ pipebuf # <<>>
           /\ Head(pipebuf) = Sentinel
           /\ pipebuf' = Tail(pipebuf))
          => (thr' = "exited" /\ invLog' = invLog /\ active' = active)]_vars

\* C11 witness: after one dispatched signal the thread has read the sentinel
\* and ended, with the identifier written behind the sentinel left unread.
C11_Witness ==
    /\ thr = "exited"
    /\ pc = "join"
    /\ Len(invLog) = 1
    /\ Len(writeLog) = 3
    /\ writeLog[2].sig = Sentinel
    /\ pipebuf = <<writeLog[3].sig>>

\* C12: when daemon(), fork() or setsid() has failed, dtr_daemon() (called
\* with foreground = false) has returned false at once with *error set, and
\* no handler is installed, no pipe and no dispatch thread was created, and
\* Start was never called.
C12_DetachFailureReturnsFalse ==
    out.error \in DetachErrors
    => /\ pc = "returned"
       /\ ~loc.foreground
       /\ out.success = FALSE
       /\ out.exit_code = InitialExitCode
       /\ NothingSetUp

\* C12 witness: the child of a successful fork() has failed in setsid() and
\* dtr_daemon() has returned in it.
C12_Witness ==
    /\ pc = "returned"
    /\ out.error = "setsid() failed"
    /\ proc.pid = "child"
    /\ proc.session = "orig"
    /\ ~out.success

\* C13: in the parent of fork() dtr_daemon() has returned true with
\* *exit_code = 0 and has done nothing else: no pipe, no thread, no handler,
\* no Start, no error, and the process is what it was at entry.
C13_ForkParentReturnsAtOnce ==
    out.forkParent
    => /\ pc = "returned"
       /\ ~loc.foreground
       /\ out.success = TRUE
       /\ out.exit_code = ParentExitCode
       /\ out.error = "none"
       /\ NothingSetUp
       /\ proc = [alive |-> TRUE, pid |-> "orig", session |-> "orig",
                  stdio |-> "tty"]

\* C13 witness: the parent side of fork() has returned.
C13_Witness ==
    /\ out.forkParent
    /\ pc = "returned"
    /\ out.exit_code = ParentExitCode
    /\ Phase = "ParentDone"

\* C14: from its entry on, a dtr_daemon() called with foreground = true is
\* never at daemon(), fork() or setsid(), reports no failure of them, is not
\* a fork parent, and its process has the pid, the session and the stdio it
\* had at entry.
C14_ForegroundNeverDetaches ==
    (pc # "entry" /\ loc.foreground)
    => /\ pc \notin {"daemonize", "setsid"}
       /\ out.error \notin DetachErrors
       /\ ~out.forkParent
       /\ proc.pid = "orig"
       /\ proc.session = "orig"
       /\ proc.stdio = "tty"

\* C14 witness: a foreground run has gone through setup, Start and teardown
\* and has returned, still the process it was.
C14_Witness ==
    /\ loc.foreground
    /\ pc = "returned"
    /\ out.success
    /\ Len(startLog) = 1
    /\ proc.pid = "orig" /\ proc.session = "orig" /\ proc.stdio = "tty"

\* C15: a handler whose write() fails aborts the process and does not
\* return: the step of a handler that finds the pipe unwritable leaves the
\* process dead with the activation still on its thread and nothing written;
\* an activation leaves its thread only in a step that appends its identifier
\* to the pipe; and the process is never dead while the pipe is writable.
C15_FailedWriteAborts ==
    /\ [](~proc.alive => ~WriteSucceeds)
    /\ [][\A t \in Threads :
             (signal_handler_run(t) /\ ~WriteSucceeds)
             => /\ ~proc'.alive
                /\ frames' = frames
                /\ pipebuf' = pipebuf
                /\ writeLog' = writeLog]_vars
    /\ [][\A t \in Threads :
             Len(frames'[t]) < Len(frames[t])
             => /\ WriteSucceeds
                /\ proc'.alive
                /\ pipebuf' = Append(pipebuf, frames[t][Len(frames[t])].sig)
                /\ frames'[t] = SubSeq(frames[t], 1, Len(frames[t]) - 1)]_vars

\* C15 witness: SIGTERM was delivered to the main thread after both pipe ends
\* were closed; the handler's write() failed and the process is dead inside
\* the handler, the identifier unwritten.
C15_Witness ==
    /\ ~proc.alive
    /\ fdWrite = "closed"
    /\ Len(frames["main"]) = 1
    /\ frames["main"][1].sig = SIGTERM
    /\ \A i \in 1..Len(writeLog) : writeLog[i].sig # SIGTERM

\* C16: once the dispatch thread has read an identifier that is neither HUP,
\* INT, TERM nor the sentinel, the process has been terminated by the failed
\* assertion: it is never alive with such an identifier consumed.
C16_UnexpectedIdentifierFails ==
    (\E i \in 1..Len(Consumed) : Consumed[i].sig \notin Signals \cup {Sentinel})
    => ~proc.alive

\* C17: while a dtr_daemon() call is active, the process-wide callbacks and
\* callback_arg are the ones that call was given, whatever other call is
\* entered meanwhile, and every Stop/Reconfigure invocation its dispatch
\* thread makes uses them.
C17_SecondEntryReplacesNothing ==
    /\ pc \notin {"entry", "returned"}
          => (callbacks = loc.cb /\ callback_arg = loc.cb_arg)
    /\ \A i \in 1..Len(invLog) :
          invLog[i].table = loc.cb /\ invLog[i].arg = loc.cb_arg

\* C18: teardown is sentinel, join, close, close: while the dispatch thread
\* is alive, or ended and not yet joined, both pipe ends are open, so no
\* read() of the thread is on a closed descriptor; the main thread waits in
\* pthread_join() only once the sentinel is written; the read end is closed
\* only once the thread is joined (or was never created), and the write end
\* only after the read end.
C18_TeardownOrder ==
    /\ thr \in {"read", "callback", "exited"}
          => (fdRead = "open" /\ fdWrite = "open")
    /\ pc = "join" => \E i \in 1..Len(writeLog) : writeLog[i].sig = Sentinel
    /\ fdRead = "closed" => thr \in {"none", "joined"}
    /\ fdWrite = "closed" => (fdRead = "closed" /\ pc = "returned")
    /\ pc = "close_wr" => (fdRead = "closed" /\ fdWrite = "open")

\* C18 witness: after a dispatched signal the thread has been joined and the
\* read end is closed; the write end is still open, about to be closed.
C18_Witness ==
    /\ pc = "close_wr"
    /\ thr = "joined"
    /\ fdRead = "closed"
    /\ fdWrite = "open"
    /\ Len(invLog) >= 1
    /\ loc.ret

\* Once destroy_signal_handler_thread() is entered, the dispatch thread
\* reads the sentinel and ends, and pthread_join() returns.
JoinReturns == (pc = "send_sentinel") ~> (thr = "joined")

\* C19: once Start has returned or a signal() call has failed, that is once
\* dtr_daemon() is at destroy_signal_handler_thread(), it eventually returns.
C19_TeardownCompletes == (pc = "send_sentinel") ~> (pc = "returned")

\* C20: while Start executes, no step takes the dispatch thread from alive
\* (at read() or in a callback) to ended: it stays alive throughout Running.
C20_ThreadStaysAliveInRunning ==
    [][(Phase = "Running" /\ thr \in {"read", "callback"})
       => thr' \in {"read", "callback"}]_vars

\* C21: whenever send_signal_to_pipe is the disposition of SIGHUP, SIGINT or
\* SIGTERM, signal_pipe[1] is open, also after dtr_daemon() has returned; and
\* the process is never dead of a handler's write() to a closed write end.
C21_InstalledHandlerHasOpenPipe ==
    /\ (\E s \in Signals : handlers[s]) => fdWrite = "open"
    /\ ~proc.alive => fdWrite # "closed"

\* C22: in the step in which a handler activation returns, the errno of its
\* thread is what it was when the handler was entered, which is what it was
\* just before the return, whatever write() left in it; and the errno of the
\* other thread is untouched.
C22_ErrnoRestored ==
    [][\A t \in Threads :
          Len(frames'[t]) < Len(frames[t])
          => /\ errno'[t] = frames[t][Len(frames[t])].old_errno
             /\ errno'[t] = errno[t]
             /\ \A u \in Threads \ {t} : errno'[u] = errno[u]]_vars

\* C22 witness: a signal delivered after a failed signal() had set the main
\* thread's errno to 1 has been written by its handler, every handler has
\* returned, and errno is still 1 on the main thread and 0 on the dispatch
\* thread.
C22_Witness ==
    /\ proc.alive
    /\ \A t \in Threads : frames[t] = <<>>
    /\ \E i \in 1..Len(writeLog) :
          writeLog[i].sig \in Signals /\ writeLog[i].sentIn = "FailedSetup"
    /\ out.error = "signal() failed"
    /\ errno["main"] = 1
    /\ errno["dispatch"] = 0

=============================================================================
